---------------------------- MODULE Spec2Model ----------------------------
(***************************************************************************)
(* HashBackup (PythenTool/backup/backup.py): the indexing / dedup / upload *)
(* pipeline.  One process run has a main thread, one indexing thread       *)
(* (generate_backup) and PARALLEL_UPLOADS upload workers (upload_worker)   *)
(* sharing a queue.Queue, the progress counters, a threading.Lock and the  *)
(* shutdown Event.  The extended attributes of the source files and the    *)
(* backup destination outlive a run.                                       *)
(*                                                                         *)
(* Spec     one run from a tree earlier runs may have dealt with, the      *)
(*          threads interleaved statement by statement, with or without a  *)
(*          KeyboardInterrupt.                                             *)
(* SpecRuns run after run on one unchanged tree that starts without        *)
(*          attributes, each run ended or killed at any point (NewRun);    *)
(*          within a run a thread ends the loop iteration it has begun     *)
(*          before another thread steps.  What the Indexer decides for a   *)
(*          file depends on the attributes, the destination and its own    *)
(*          hashes_to_upload only, not on the order of the workers' steps. *)
(* SpecPath the destination-path expression of line 220 on its own,       *)
(*          applied to a digest, an extension and a directory depth.       *)
(***************************************************************************)
EXTENDS Integers, Sequences, FiniteSets, TLC

(* ------------------------------ bounds -------------------------------- *)
\* number of (non-ignored) regular files os.walk yields, in walk order
NumFiles == 2
\* distinct non-empty file contents; content 0 is the empty file
NumContents == 2
\* modification times are 1..MaxMtime (timestamps after the epoch)
MaxMtime == 1

\* settings.PARALLEL_UPLOADS, the number of upload workers (a setting of the
\* job; two workers make the interleavings between workers visible)
PARALLEL_UPLOADS == 2
\* settings.MAX_RETRIES, the retries of a failing task (a setting of the job)
MAX_RETRIES == 1

(* ------------------------- program constants -------------------------- *)
\* settings.TARGET_DIR_DEPTH, at its default
TARGET_DIR_DEPTH == 3

Files    == 1..NumFiles
Contents == 0..NumContents
Mtimes   == 1..MaxMtime
Workers  == 1..PARALLEL_UPLOADS

TXT == <<".", "t", "x", "t">>
JPG == <<".", "j", "p", "g">>
\* os.path.splitext(filename)[1] of the files of the tree
Exts == {TXT, JPG}

ATTR_NAME_MD5_HASH_VALUE == "user.md5_hash_value"
ATTR_NAME_MD5_HASH_MTIME == "user.md5_hash_mtime"
ATTR_NAME_BACKUP_MTIME   == "user.Default_backup_mtime"

AZURE         == "azure"
LOCAL_STORAGE == "local_storage"

VARIABLES
  \* the source tree (not changed by the program)
  content, mtime, ext,
  \* configuration: the backend of the job; the mode flags of the current run
  BACKUP_TYPE, SAFE_MODE, DRY_RUN,
  \* state that outlives a run
  xattr,            \* file -> function from attribute name to value
  remote,           \* blobs at the destination: [name, md5, size]
  \* module globals of one run
  upload_queue, unfinished_tasks,
  remaining_files, remaining_size, saved_files, saved_size, files_indized,
  lock,             \* threading.Lock: 0 free, w held by worker w
  shutdown_flag, indexing_active, hashes_to_upload,
  lock_held, lock_file,
  \* generate_backup (the indexing thread)
  ipc, idx, ireg, hashes, ledger, metadata_uploaded,
  \* upload_worker threads
  wpc, wtask, wreg,
  \* the main thread
  mpc,
  \* history of the run (read by no action's guard)
  enqLog,           \* fresh tasks the Indexer has put, in order
  attempts,         \* file -> upload attempts made for its unresolved task
  succeeded,        \* files whose upload returned success in this run
  exhausted,        \* a worker has set the flag after exhausting retries
  lateGets,         \* worker -> tasks it dequeued while the flag was set
  unconfirmed,      \* marker cleared in this run, upload not yet confirmed
  redo, prevSafe,   \* unconfirmed / SAFE_MODE of the run before this one
  prevClean,        \* the run before was a fast-mode run that completed
                    \* with every enqueued upload successful
  \* one evaluation of the destination-path expression of line 220 on its own
  \* (SpecPath); Spec and SpecRuns leave it at NoPathCall
  path_call         \* [h, e, K, path]: arguments, and the result once computed

treeVars == <<content, mtime, ext, BACKUP_TYPE, path_call>>
cfgVars  == <<SAFE_MODE, DRY_RUN>>
cntVars  == <<remaining_files, remaining_size, saved_files, saved_size>>
idxVars  == <<ipc, idx, ireg, hashes, ledger, metadata_uploaded, files_indized,
              indexing_active, hashes_to_upload, enqLog>>
wrkVars  == <<wpc, wtask, wreg>>
runHist  == <<attempts, succeeded, exhausted, lateGets, unconfirmed>>
prevHist == <<redo, prevSafe, prevClean>>
lockVars == <<lock_held, lock_file>>

vars == <<treeVars, cfgVars, xattr, remote, upload_queue, unfinished_tasks,
          cntVars, lock, shutdown_flag, idxVars, wrkVars, mpc, runHist,
          prevHist, lockVars>>

(* ----------------------------- helpers -------------------------------- *)
Range(s) == {s[i] : i \in DOMAIN s}

EmptyMap == [x \in {} |-> 0]

\* xattr.setxattr / xattr.removexattr on one file's attribute table
SetAttr(x, a, v) == [n \in (DOMAIN x) \cup {a} |-> IF n = a THEN v ELSE x[n]]
DelAttr(x, a)    == [n \in (DOMAIN x) \ {a} |-> x[n]]

\* float(xattr.getxattr(..).decode() if ATTR in xattr.listxattr(..) else "0"):
\* an attribute was written as str(os.path.getmtime(..)), which float() reads
\* back exactly; a missing attribute reads as 0
MtimeAttr(x, a) == IF a \in DOMAIN x THEN x[a] ELSE 0

\* os.path.getsize: a content's length in bytes
SizeOf(c) == c

HexDigits == <<"0", "1", "2", "3", "4", "5", "6", "7",
               "8", "9", "a", "b", "c", "d", "e", "f">>

\* calculate_hash: the md5 hex digest of a non-empty content, one digest per
\* content (digests are shortened to four hex characters)
calculate_hash(c) ==
  <<"5", "e", HexDigits[(c % 16) + 1], HexDigits[((c \div 16) % 16) + 1]>>

Min(a, b) == IF a < b THEN a ELSE b

RECURSIVE JoinSlash(_)
\* '/'.join(s) for a sequence of characters
JoinSlash(s) ==
  IF Len(s) = 0 THEN <<>>
  ELSE IF Len(s) = 1 THEN s
  ELSE <<s[1], "/">> \o JoinSlash(Tail(s))

\* the first K characters as ONE directory name
DestPath_OneSegment(h, e, K) == SubSeq(h, 1, Min(K, Len(h))) \o <<"/">> \o h \o e

\* f"{'/'.join(file_hash[:TARGET_DIR_DEPTH])}/{file_hash}{file_extension}"
DestPath(h, e, K) == JoinSlash(SubSeq(h, 1, Min(K, Len(h)))) \o <<"/">> \o h \o e

\* the tuple upload_queue carries; file_path 0 is None
Task(f, b, h, t) == [file_path |-> f, blob_name |-> b, file_hash |-> h, upload_try |-> t]
Sentinel == Task(0, <<>>, <<>>, 0)

(* --------------------- the per-file decision (Indexer) ----------------- *)
file_size(f)  == SizeOf(content[f])
file_mtime(f) == mtime[f]

\* line 196 / 204: the cached hash's modification time, read before any recompute
file_hash_mtime(f) == MtimeAttr(xattr[f], ATTR_NAME_MD5_HASH_MTIME)

\* line 200: the backup marker as a number
current_attr_mtime(f) == MtimeAttr(xattr[f], ATTR_NAME_BACKUP_MTIME)

Recompute_HashOnly(f) == ATTR_NAME_MD5_HASH_VALUE \notin DOMAIN xattr[f]

\* line 204: the cache is missing or stale
Recompute(f) ==
  file_hash_mtime(f) # file_mtime(f) \/ ATTR_NAME_MD5_HASH_VALUE \notin DOMAIN xattr[f]

\* lines 197, 205: the hash the Indexer works with
file_hash(f) ==
  IF Recompute(f)
  THEN IF file_size(f) > 0 THEN calculate_hash(content[f]) ELSE <<"0">>
  ELSE xattr[f][ATTR_NAME_MD5_HASH_VALUE]

upload_required_MarkerToo(f) ==
  IF SAFE_MODE
  THEN /\ file_hash(f) \notin DOMAIN hashes \/ hashes[file_hash(f)] # file_size(f)
       /\ current_attr_mtime(f) # file_mtime(f)
  ELSE current_attr_mtime(f) # file_mtime(f)

upload_required_ByCache(f) ==
  IF SAFE_MODE
  THEN file_hash(f) \notin DOMAIN hashes \/ hashes[file_hash(f)] # file_size(f)
  ELSE file_hash_mtime(f) # file_mtime(f)

\* lines 209-216
upload_required(f) ==
  IF SAFE_MODE
  THEN file_hash(f) \notin DOMAIN hashes \/ hashes[file_hash(f)] # file_size(f)
  ELSE current_attr_mtime(f) # file_mtime(f)

\* lines 212-214: safe mode repairs the marker of a file it does not upload
CorrectsMarker(f) ==
  SAFE_MODE /\ ~upload_required(f) /\ file_hash_mtime(f) # file_mtime(f)

ToQueue_EmptyToo(f) ==
  upload_required(f) /\ file_hash(f) \notin Range(hashes_to_upload)

ToQueue_NoDedup(f) == upload_required(f) /\ file_size(f) > 0

\* line 218
ToQueue(f) ==
  upload_required(f) /\ file_size(f) > 0 /\ file_hash(f) \notin Range(hashes_to_upload)

NewTask_ByFile(f) ==
  Task(f, DestPath(file_hash(f), ext[f], TARGET_DIR_DEPTH) \o <<HexDigits[f + 1]>>,
       file_hash(f), 0)

\* lines 219-220, 224: the task put for file f
NewTask(f) ==
  Task(f, DestPath(file_hash(f), ext[f], TARGET_DIR_DEPTH), file_hash(f), 0)

\* lines 206-207
CacheWritten(f, x) ==
  IF Recompute(f)
  THEN SetAttr(SetAttr(x, ATTR_NAME_MD5_HASH_VALUE, file_hash(f)),
               ATTR_NAME_MD5_HASH_MTIME, file_mtime(f))
  ELSE x

\* line 214
MarkerCorrected(f, x) ==
  IF CorrectsMarker(f) THEN SetAttr(x, ATTR_NAME_BACKUP_MTIME, file_mtime(f)) ELSE x

MarkerCleared_Kept(f, x) == x

\* line 221
MarkerCleared(f, x) ==
  IF ToQueue(f) THEN DelAttr(x, ATTR_NAME_BACKUP_MTIME) ELSE x

\* line 231
LedgerRow(f) ==
  [Filename |-> f, Hash |-> file_hash(f), Extension |-> ext[f], Size |-> file_size(f),
   ModifiedTime |-> file_mtime(f), InQueue |-> (upload_required(f) /\ file_size(f) > 0)]

(* ----------------------------- the backend ----------------------------- *)
ExtRank(e) == IF e = TXT THEN 2 ELSE 1

Blob(name, md5, e, size) == [name |-> name, md5 |-> md5, ext |-> e, size |-> size]

\* AzureStorageBackend.fetch_hashes: the blobs are listed in name order and a
\* later blob of the same digest overwrites the entry (names of one digest
\* differ in the extension only).  LocalStorageBackend.fetch_hashes reads an
\* attribute, user.backup_hash, that no upload writes: its result is empty.
fetch_hashes ==
  IF BACKUP_TYPE = AZURE
  THEN [h \in {b.md5 : b \in {x \in remote : x.size > 0}} |->
          LET bs   == {b \in remote : b.md5 = h /\ b.size > 0}
              last == CHOOSE b \in bs : \A o \in bs : ExtRank(o.ext) <= ExtRank(b.ext)
          IN  last.size]
  ELSE EmptyMap

\* the outcomes of upload_to_destination for a task: the value returned to
\* the worker ("ok" True, "fail" False, "raise" an exception) and the
\* destination afterwards
StoredBy(t) ==
  IF \E b \in remote : b.name = t.blob_name
  THEN remote
  ELSE remote \cup {Blob(t.blob_name, t.file_hash, ext[t.file_path],
                         file_size(t.file_path))}

UploadOutcomes(t) ==
  IF DRY_RUN THEN {<<"ok", remote>>}
  ELSE IF BACKUP_TYPE = AZURE
       \* uploaded, or ResourceExistsError: True; any other exception: False
       THEN {<<"ok", StoredBy(t)>>, <<"fail", remote>>}
       \* shutil.copy2 stores the file, then xattr.setxattr is handed the bound
       \* method file_hash.encode and raises TypeError
       ELSE {<<"raise", StoredBy(t)>>}

\* path_call before anything was formatted
NoPathCall == [h |-> <<>>, e |-> <<>>, K |-> 0, path |-> <<>>]

(* ------------------------------- Init ---------------------------------- *)
\* the globals of a process after lines 43-62 and the thread starts of
\* lines 248-251: the lock is held, the workers run, the Indexer is not started
RunInit ==
  /\ upload_queue = <<>> /\ unfinished_tasks = 0
  /\ remaining_files = 0 /\ remaining_size = 0
  /\ saved_files = 0 /\ saved_size = 0 /\ files_indized = 0
  /\ lock = 0 /\ shutdown_flag = FALSE /\ indexing_active = TRUE
  /\ hashes_to_upload = <<>>
  /\ lock_held = TRUE /\ lock_file = TRUE
  /\ ipc = "idle" /\ idx = 1 /\ ireg = 0 /\ hashes = EmptyMap
  /\ ledger = <<>> /\ metadata_uploaded = FALSE
  /\ wpc = [w \in Workers |-> "loop"]
  /\ wtask = [w \in Workers |-> Sentinel]
  /\ wreg = [w \in Workers |-> 0]
  /\ mpc = "start"
  /\ enqLog = <<>>
  /\ attempts = [f \in Files |-> 0]
  /\ succeeded = {}
  /\ exhausted = FALSE
  /\ lateGets = [w \in Workers |-> 0]
  /\ unconfirmed = {}

\* a blob left at the destination by something else than a completed upload
\* of this tree: the digest of content 1 with another size
ForeignBlob ==
  Blob(DestPath(calculate_hash(1), TXT, TARGET_DIR_DEPTH), calculate_hash(1), TXT,
       SizeOf(1) + 1)

\* the trees the runs are explored on: contents are numbered in the order the
\* walk meets them and the first file is a .txt
Trees ==
  {t \in [content : [Files -> Contents], mtime : [Files -> Mtimes], ext : [Files -> Exts]] :
     /\ \A f \in Files : \A c \in 1..(t.content[f] - 1) :
                           \E g \in 1..(f - 1) : t.content[g] = c
     /\ t.ext[1] = TXT}

\* attributes and blob an earlier, completed backup of file f has left
SavedAttrs(t, f) ==
  [n \in {ATTR_NAME_MD5_HASH_VALUE, ATTR_NAME_MD5_HASH_MTIME, ATTR_NAME_BACKUP_MTIME} |->
     IF n = ATTR_NAME_MD5_HASH_VALUE THEN calculate_hash(t.content[f]) ELSE t.mtime[f]]

SavedBlob(t, f) ==
  Blob(DestPath(calculate_hash(t.content[f]), t.ext[f], TARGET_DIR_DEPTH),
       calculate_hash(t.content[f]), t.ext[f], SizeOf(t.content[f]))

\* a tree never seen by the program (no attributes, nothing stored, or a
\* foreign blob at the destination)
InitFresh ==
  /\ \E t \in Trees : content = t.content /\ mtime = t.mtime /\ ext = t.ext
  /\ BACKUP_TYPE \in {AZURE, LOCAL_STORAGE}
  /\ SAFE_MODE \in BOOLEAN
  /\ DRY_RUN \in BOOLEAN
  /\ xattr = [f \in Files |-> EmptyMap]
  /\ remote \in {{}, {ForeignBlob}}
  /\ RunInit
  /\ redo = {} /\ prevSafe = SAFE_MODE /\ prevClean = FALSE
  /\ path_call = NoPathCall

\* what earlier runs can have left of a file: nothing ("new"), its attributes
\* with the marker but no blob ("marked", as a dry run leaves it), or its
\* attributes and its blob at the Azure destination ("stored")
Statuses == [Files -> {"new", "marked", "stored"}]

\* a tree of which earlier runs have dealt with some non-empty files
Init ==
  /\ \E t \in Trees :
       /\ content = t.content /\ mtime = t.mtime /\ ext = t.ext
       /\ \E st \in Statuses :
            /\ \A f \in Files : t.content[f] = 0 => st[f] = "new"
            /\ xattr = [f \in Files |-> IF st[f] = "new" THEN EmptyMap
                                         ELSE SavedAttrs(t, f)]
            /\ \E foreign \in SUBSET {ForeignBlob} :
                 /\ (\E f \in Files : st[f] = "stored") => foreign = {}
                 /\ remote = {SavedBlob(t, f) : f \in {g \in Files : st[g] = "stored"}}
                               \cup foreign
            /\ BACKUP_TYPE \in IF \E f \in Files : st[f] = "stored"
                                THEN {AZURE} ELSE {AZURE, LOCAL_STORAGE}
  /\ SAFE_MODE \in BOOLEAN
  /\ DRY_RUN \in BOOLEAN
  /\ RunInit
  /\ redo = {} /\ prevSafe = SAFE_MODE /\ prevClean = FALSE
  /\ path_call = NoPathCall

(* ------------------------ generate_backup ------------------------------ *)
\* lines 163-176: the remote hash list (safe mode), the ledger opened and its
\* preamble written
IdxBegin ==
  /\ ipc = "begin"
  /\ hashes' = IF SAFE_MODE THEN fetch_hashes ELSE hashes
  /\ ledger' = <<>>
  /\ ipc' = "check"
  /\ UNCHANGED <<treeVars, cfgVars, xattr, remote, upload_queue, unfinished_tasks,
                 cntVars, lock, shutdown_flag, idx, ireg, metadata_uploaded,
                 files_indized, indexing_active, hashes_to_upload, enqLog,
                 wrkVars, mpc, runHist, prevHist, lockVars>>

IdxFetchFails_Silent ==
  /\ ipc = "begin"
  /\ SAFE_MODE /\ BACKUP_TYPE = AZURE
  /\ UNCHANGED shutdown_flag
  /\ ipc' = "inactive"
  /\ UNCHANGED <<treeVars, cfgVars, xattr, remote, upload_queue, unfinished_tasks,
                 cntVars, lock, idx, ireg, hashes, ledger, metadata_uploaded,
                 files_indized, indexing_active, hashes_to_upload, enqLog,
                 wrkVars, mpc, runHist, prevHist, lockVars>>

\* lines 167, 237-240: fetch_hashes raises (azure_backend.py line 34)
IdxFetchFails ==
  /\ ipc = "begin"
  /\ SAFE_MODE /\ BACKUP_TYPE = AZURE
  /\ shutdown_flag' = TRUE
  /\ ipc' = "inactive"
  /\ UNCHANGED <<treeVars, cfgVars, xattr, remote, upload_queue, unfinished_tasks,
                 cntVars, lock, idx, ireg, hashes, ledger, metadata_uploaded,
                 files_indized, indexing_active, hashes_to_upload, enqLog,
                 wrkVars, mpc, runHist, prevHist, lockVars>>

IdxCheck_Blind ==
  /\ ipc = "check"
  /\ ipc' = IF idx > NumFiles THEN "finish" ELSE "examine"
  /\ UNCHANGED <<treeVars, cfgVars, xattr, remote, upload_queue, unfinished_tasks,
                 cntVars, lock, shutdown_flag, idx, ireg, hashes, ledger,
                 metadata_uploaded, files_indized, indexing_active,
                 hashes_to_upload, enqLog, wrkVars, mpc, runHist, prevHist, lockVars>>

\* lines 180-183: the next file of the walk; the flag is polled before it.
\* The return of line 183 leaves the function: lines 241-242 are not run.
IdxCheck ==
  /\ ipc = "check"
  /\ ipc' = IF idx > NumFiles THEN "finish"
            ELSE IF shutdown_flag THEN "done"
            ELSE "examine"
  /\ UNCHANGED <<treeVars, cfgVars, xattr, remote, upload_queue, unfinished_tasks,
                 cntVars, lock, shutdown_flag, idx, ireg, hashes, ledger,
                 metadata_uploaded, files_indized, indexing_active,
                 hashes_to_upload, enqLog, wrkVars, mpc, runHist, prevHist, lockVars>>

\* lines 186-221 (and 227-231 for a file that is not queued): the file is
\* counted, fingerprinted and decided; the marker of a file to upload is removed
IdxExamine ==
  /\ ipc = "examine"
  /\ lock = 0
  /\ files_indized' = files_indized + 1
  /\ xattr' = [xattr EXCEPT ![idx] =
                 MarkerCleared(idx, MarkerCorrected(idx, CacheWritten(idx, @)))]
  /\ IF ToQueue(idx)
     THEN /\ ipc' = "rf_read"
          /\ unconfirmed' = unconfirmed \cup {idx}
          /\ UNCHANGED <<ledger, idx>>
     ELSE /\ ipc' = "check"
          /\ ledger' = Append(ledger, LedgerRow(idx))
          /\ idx' = idx + 1
          /\ UNCHANGED unconfirmed
  /\ UNCHANGED <<treeVars, cfgVars, remote, upload_queue, unfinished_tasks,
                 cntVars, lock, shutdown_flag, ireg, hashes, metadata_uploaded,
                 indexing_active, hashes_to_upload, enqLog, wrkVars, mpc,
                 attempts, succeeded, exhausted, lateGets, prevHist, lockVars>>

\* lines 205, 237-240: calculate_hash raises on a file it cannot read
IdxHashFails ==
  /\ ipc = "examine"
  /\ lock = 0
  /\ Recompute(idx) /\ file_size(idx) > 0
  /\ files_indized' = files_indized + 1
  /\ shutdown_flag' = TRUE
  /\ ipc' = "inactive"
  /\ UNCHANGED <<treeVars, cfgVars, xattr, remote, upload_queue, unfinished_tasks,
                 cntVars, lock, idx, ireg, hashes, ledger, metadata_uploaded,
                 indexing_active, hashes_to_upload, enqLog, wrkVars, mpc,
                 runHist, prevHist, lockVars>>

\* line 222, remaining_files += 1 without the lock: the load ...
IdxRfRead ==
  /\ ipc = "rf_read"
  /\ ireg' = remaining_files
  /\ ipc' = "rf_write"
  /\ UNCHANGED <<treeVars, cfgVars, xattr, remote, upload_queue, unfinished_tasks,
                 cntVars, lock, shutdown_flag, idx, hashes, ledger,
                 metadata_uploaded, files_indized, indexing_active,
                 hashes_to_upload, enqLog, wrkVars, mpc, runHist, prevHist, lockVars>>

\* ... and the store
IdxRfWrite ==
  /\ ipc = "rf_write"
  /\ remaining_files' = ireg + 1
  /\ ireg' = 0
  /\ ipc' = "rs_read"
  /\ UNCHANGED <<treeVars, cfgVars, xattr, remote, upload_queue, unfinished_tasks,
                 remaining_size, saved_files, saved_size, lock, shutdown_flag, idx,
                 hashes, ledger, metadata_uploaded, files_indized,
                 indexing_active, hashes_to_upload, enqLog, wrkVars, mpc, runHist,
                 prevHist, lockVars>>

\* line 223, remaining_size += file_size without the lock: the load ...
IdxRsRead ==
  /\ ipc = "rs_read"
  /\ ireg' = remaining_size
  /\ ipc' = "rs_write"
  /\ UNCHANGED <<treeVars, cfgVars, xattr, remote, upload_queue, unfinished_tasks,
                 cntVars, lock, shutdown_flag, idx, hashes, ledger,
                 metadata_uploaded, files_indized, indexing_active,
                 hashes_to_upload, enqLog, wrkVars, mpc, runHist, prevHist, lockVars>>

\* ... and the store
IdxRsWrite ==
  /\ ipc = "rs_write"
  /\ remaining_size' = ireg + file_size(idx)
  /\ ireg' = 0
  /\ ipc' = "put"
  /\ UNCHANGED <<treeVars, cfgVars, xattr, remote, upload_queue, unfinished_tasks,
                 remaining_files, saved_files, saved_size, lock, shutdown_flag, idx,
                 hashes, ledger, metadata_uploaded, files_indized,
                 indexing_active, hashes_to_upload, enqLog, wrkVars, mpc, runHist,
                 prevHist, lockVars>>

\* lines 224-231: the task is put, its hash remembered, the ledger row written
IdxPut ==
  /\ ipc = "put"
  /\ upload_queue' = Append(upload_queue, NewTask(idx))
  /\ unfinished_tasks' = unfinished_tasks + 1
  /\ hashes_to_upload' = Append(hashes_to_upload, file_hash(idx))
  /\ enqLog' = Append(enqLog, NewTask(idx))
  /\ ledger' = Append(ledger, LedgerRow(idx))
  /\ idx' = idx + 1
  /\ ipc' = "check"
  /\ UNCHANGED <<treeVars, cfgVars, xattr, remote, cntVars, lock, shutdown_flag,
                 ireg, hashes, metadata_uploaded, files_indized, indexing_active,
                 wrkVars, mpc, runHist, prevHist, lockVars>>

\* lines 233-240 and upload_backup_metadata: the ledger is uploaded unless the
\* flag is set or this is a dry run; the returned value is not looked at, an
\* exception of the backend sets the flag
IdxFinish ==
  /\ ipc = "finish"
  /\ IF shutdown_flag \/ DRY_RUN
     THEN UNCHANGED <<metadata_uploaded, shutdown_flag>>
     ELSE IF BACKUP_TYPE = AZURE
          THEN /\ metadata_uploaded' \in BOOLEAN
               /\ UNCHANGED shutdown_flag
          ELSE /\ metadata_uploaded' = TRUE
               /\ shutdown_flag' = TRUE
  /\ ipc' = "inactive"
  /\ UNCHANGED <<treeVars, cfgVars, xattr, remote, upload_queue, unfinished_tasks,
                 cntVars, lock, idx, ireg, hashes, ledger, files_indized,
                 indexing_active, hashes_to_upload, enqLog, wrkVars, mpc, runHist,
                 prevHist, lockVars>>

\* lines 241-242
IdxInactive ==
  /\ ipc = "inactive"
  /\ lock = 0
  /\ indexing_active' = FALSE
  /\ ipc' = "done"
  /\ UNCHANGED <<treeVars, cfgVars, xattr, remote, upload_queue, unfinished_tasks,
                 cntVars, lock, shutdown_flag, idx, ireg, hashes, ledger,
                 metadata_uploaded, files_indized, hashes_to_upload, enqLog,
                 wrkVars, mpc, runHist, prevHist, lockVars>>

Indexer ==
  \/ IdxBegin \/ IdxFetchFails \/ IdxCheck \/ IdxExamine \/ IdxHashFails
  \/ IdxRfRead \/ IdxRfWrite \/ IdxRsRead \/ IdxRsWrite \/ IdxPut
  \/ IdxFinish \/ IdxInactive

(* -------------------------- upload_worker ------------------------------ *)
WCheck_Blind(w) ==
  /\ wpc[w] = "loop"
  /\ wpc' = [wpc EXCEPT ![w] = "get"]
  /\ UNCHANGED <<treeVars, cfgVars, xattr, remote, upload_queue, unfinished_tasks,
                 cntVars, lock, shutdown_flag, idxVars, wtask, wreg, mpc, runHist,
                 prevHist, lockVars>>

\* line 77: the loop condition
WCheck(w) ==
  /\ wpc[w] = "loop"
  /\ wpc' = [wpc EXCEPT ![w] = IF shutdown_flag THEN "exit" ELSE "get"]
  /\ UNCHANGED <<treeVars, cfgVars, xattr, remote, upload_queue, unfinished_tasks,
                 cntVars, lock, shutdown_flag, idxVars, wtask, wreg, mpc, runHist,
                 prevHist, lockVars>>

\* lines 79-83, 99-100: get(timeout=1).  queue.Empty goes round the loop: with
\* the flag clear that round ends at this get again and is no step, with the
\* flag set it is the step to the loop condition.  The sentinel leaves the loop.
WGet(w) ==
  /\ wpc[w] = "get"
  /\ IF upload_queue = <<>>
     THEN /\ shutdown_flag
          /\ wpc' = [wpc EXCEPT ![w] = "loop"]
          /\ UNCHANGED <<upload_queue, wtask, lateGets>>
     ELSE /\ upload_queue' = Tail(upload_queue)
          /\ wtask' = [wtask EXCEPT ![w] = Head(upload_queue)]
          /\ IF Head(upload_queue).file_path = 0
             THEN /\ wpc' = [wpc EXCEPT ![w] = "exit"]
                  /\ UNCHANGED lateGets
             ELSE /\ wpc' = [wpc EXCEPT ![w] = "upload"]
                  /\ lateGets' = [lateGets EXCEPT ![w] =
                                    IF shutdown_flag THEN @ + 1 ELSE @]
  /\ UNCHANGED <<treeVars, cfgVars, xattr, remote, unfinished_tasks, cntVars, lock,
                 shutdown_flag, idxVars, wreg, mpc, attempts, succeeded, exhausted,
                 unconfirmed, prevHist, lockVars>>

AfterUpload_OneMore(result, upload_try) ==
  IF result = "ok" THEN "mark"
  ELSE IF result = "raise" THEN "raised"
  ELSE IF upload_try <= MAX_RETRIES THEN "sleep"
  ELSE "exhausted"

\* lines 85, 92, 95: where the worker goes with what the backend returned
AfterUpload(result, upload_try) ==
  IF result = "ok" THEN "mark"
  ELSE IF result = "raise" THEN "raised"
  ELSE IF upload_try < MAX_RETRIES THEN "sleep"
  ELSE "exhausted"

\* line 84: storage_backend.upload_to_destination
WUpload(w) ==
  /\ wpc[w] = "upload"
  /\ \E o \in UploadOutcomes(wtask[w]) :
       /\ remote' = o[2]
       /\ wpc' = [wpc EXCEPT ![w] = AfterUpload(o[1], wtask[w].upload_try)]
       /\ succeeded' = IF o[1] = "ok" THEN succeeded \cup {wtask[w].file_path}
                       ELSE succeeded
       /\ unconfirmed' = IF o[1] = "ok" THEN unconfirmed \ {wtask[w].file_path}
                         ELSE unconfirmed
  /\ attempts' = [attempts EXCEPT ![wtask[w].file_path] = @ + 1]
  /\ UNCHANGED <<treeVars, cfgVars, xattr, upload_queue, unfinished_tasks, cntVars,
                 lock, shutdown_flag, idxVars, wtask, wreg, mpc, exhausted,
                 lateGets, prevHist, lockVars>>

\* line 86: the marker is written after a successful upload
MarkerSet(f, x) == SetAttr(x, ATTR_NAME_BACKUP_MTIME, file_mtime(f))

\* lines 86-88: the marker is set and the lock taken; remaining_files -= 1,
\* the load ...
WMark(w) ==
  /\ wpc[w] = "mark"
  /\ lock = 0
  /\ xattr' = [xattr EXCEPT ![wtask[w].file_path] = MarkerSet(wtask[w].file_path, @)]
  /\ lock' = w
  /\ wreg' = [wreg EXCEPT ![w] = remaining_files]
  /\ wpc' = [wpc EXCEPT ![w] = "rf_write"]
  /\ UNCHANGED <<treeVars, cfgVars, remote, upload_queue, unfinished_tasks, cntVars,
                 shutdown_flag, idxVars, wtask, mpc, runHist, prevHist, lockVars>>

\* ... and the store
WRfWrite(w) ==
  /\ wpc[w] = "rf_write"
  /\ remaining_files' = wreg[w] - 1
  /\ wreg' = [wreg EXCEPT ![w] = 0]
  /\ wpc' = [wpc EXCEPT ![w] = "rs_read"]
  /\ UNCHANGED <<treeVars, cfgVars, xattr, remote, upload_queue, unfinished_tasks,
                 remaining_size, saved_files, saved_size, lock, shutdown_flag,
                 idxVars, wtask, mpc, runHist, prevHist, lockVars>>

\* line 89: remaining_size -= file_size, the load ...
WRsRead(w) ==
  /\ wpc[w] = "rs_read"
  /\ wreg' = [wreg EXCEPT ![w] = remaining_size]
  /\ wpc' = [wpc EXCEPT ![w] = "rs_write"]
  /\ UNCHANGED <<treeVars, cfgVars, xattr, remote, upload_queue, unfinished_tasks,
                 cntVars, lock, shutdown_flag, idxVars, wtask, mpc, runHist,
                 prevHist, lockVars>>

\* ... and the store; lines 90-91 (only workers write saved_*, under the lock);
\* the lock is released; lines 97-98: task_done
WRsWrite(w) ==
  /\ wpc[w] = "rs_write"
  /\ remaining_size' = wreg[w] - file_size(wtask[w].file_path)
  /\ saved_files' = saved_files + 1
  /\ saved_size' = saved_size + file_size(wtask[w].file_path)
  /\ lock' = 0
  /\ unfinished_tasks' = unfinished_tasks - 1
  /\ wreg' = [wreg EXCEPT ![w] = 0]
  /\ wtask' = [wtask EXCEPT ![w] = Sentinel]
  /\ wpc' = [wpc EXCEPT ![w] = "loop"]
  /\ attempts' = [attempts EXCEPT ![wtask[w].file_path] = 0]
  /\ UNCHANGED <<treeVars, cfgVars, xattr, remote, upload_queue, remaining_files,
                 shutdown_flag, idxVars, mpc, succeeded, exhausted, lateGets,
                 unconfirmed, prevHist, lockVars>>

\* line 94: the task as it is put again
Retry(t) == Task(t.file_path, t.blob_name, t.file_hash, t.upload_try + 1)

\* lines 93-98: after time.sleep(RETRY_DELAY) the worker that held the task
\* puts it again, then calls task_done for the one it took
WRequeue(w) ==
  /\ wpc[w] = "sleep"
  /\ upload_queue' = Append(upload_queue, Retry(wtask[w]))
  /\ unfinished_tasks' = (unfinished_tasks + 1) - 1
  /\ wtask' = [wtask EXCEPT ![w] = Sentinel]
  /\ wpc' = [wpc EXCEPT ![w] = "loop"]
  /\ UNCHANGED <<treeVars, cfgVars, xattr, remote, cntVars, lock, shutdown_flag,
                 idxVars, wreg, mpc, runHist, prevHist, lockVars>>

\* lines 96, 101-105: the RuntimeError of an exhausted task, or an exception of
\* the backend, sets the flag and ends the worker; task_done is not called
WFatal(w) ==
  /\ wpc[w] \in {"exhausted", "raised"}
  /\ shutdown_flag' = TRUE
  /\ exhausted' = (exhausted \/ wpc[w] = "exhausted")
  /\ wtask' = [wtask EXCEPT ![w] = Sentinel]
  /\ wpc' = [wpc EXCEPT ![w] = "exit"]
  /\ UNCHANGED <<treeVars, cfgVars, xattr, remote, upload_queue, unfinished_tasks,
                 cntVars, lock, idxVars, wreg, mpc, attempts, succeeded,
                 lateGets, unconfirmed, prevHist, lockVars>>

Worker(w) ==
  \/ WCheck(w) \/ WGet(w) \/ WUpload(w) \/ WMark(w) \/ WRfWrite(w)
  \/ WRsRead(w) \/ WRsWrite(w) \/ WRequeue(w) \/ WFatal(w)

(* --------------------------- the main thread --------------------------- *)
\* lines 256-260
MStart ==
  /\ mpc = "start"
  /\ ipc' = "begin"
  /\ mpc' = "join_index"
  /\ UNCHANGED <<treeVars, cfgVars, xattr, remote, upload_queue, unfinished_tasks,
                 cntVars, lock, shutdown_flag, idx, ireg, hashes, ledger,
                 metadata_uploaded, files_indized, indexing_active,
                 hashes_to_upload, enqLog, wrkVars, runHist, prevHist, lockVars>>

\* line 267: index_thread.join()
MJoinIndex ==
  /\ mpc = "join_index"
  /\ ipc = "done"
  /\ mpc' = "join_queue"
  /\ UNCHANGED <<treeVars, cfgVars, xattr, remote, upload_queue, unfinished_tasks,
                 cntVars, lock, shutdown_flag, idxVars, wrkVars, runHist, prevHist,
                 lockVars>>

\* lines 270-272, 283: upload_queue.join() returns when no task is unfinished;
\* the summary is printed; index_thread.join(timeout=10) returns at once
MJoinQueue ==
  /\ mpc = "join_queue"
  /\ unfinished_tasks = 0
  /\ mpc' = "fin_join_queue"
  /\ UNCHANGED <<treeVars, cfgVars, xattr, remote, upload_queue, unfinished_tasks,
                 cntVars, lock, shutdown_flag, idxVars, wrkVars, runHist, prevHist,
                 lockVars>>

\* lines 274-276, 283: KeyboardInterrupt while the main thread waits;
\* index_thread.join(timeout=10) returns with or without the thread (it has
\* no effect on what follows)
Interrupt ==
  /\ mpc \in {"join_index", "join_queue"}
  /\ shutdown_flag' = TRUE
  /\ mpc' = "fin_join_queue"
  /\ UNCHANGED <<treeVars, cfgVars, xattr, remote, upload_queue, unfinished_tasks,
                 cntVars, lock, idxVars, wrkVars, runHist, prevHist, lockVars>>

\* line 284: upload_queue.join()
MFinJoinQueue ==
  /\ mpc = "fin_join_queue"
  /\ unfinished_tasks = 0
  /\ mpc' = "sentinels"
  /\ UNCHANGED <<treeVars, cfgVars, xattr, remote, upload_queue, unfinished_tasks,
                 cntVars, lock, shutdown_flag, idxVars, wrkVars, runHist, prevHist,
                 lockVars>>

MSentinels_OneShort ==
  /\ mpc = "sentinels"
  /\ upload_queue' = upload_queue \o [i \in 1..(PARALLEL_UPLOADS - 1) |-> Sentinel]
  /\ unfinished_tasks' = unfinished_tasks + (PARALLEL_UPLOADS - 1)
  /\ mpc' = "join_workers"
  /\ UNCHANGED <<treeVars, cfgVars, xattr, remote, cntVars, lock, shutdown_flag,
                 idxVars, wrkVars, runHist, prevHist, lockVars>>

\* lines 294-295: one sentinel per worker
MSentinels ==
  /\ mpc = "sentinels"
  /\ upload_queue' = upload_queue \o [i \in 1..PARALLEL_UPLOADS |-> Sentinel]
  /\ unfinished_tasks' = unfinished_tasks + PARALLEL_UPLOADS
  /\ mpc' = "join_workers"
  /\ UNCHANGED <<treeVars, cfgVars, xattr, remote, cntVars, lock, shutdown_flag,
                 idxVars, wrkVars, runHist, prevHist, lockVars>>

\* lines 296-297
MJoinWorkers ==
  /\ mpc = "join_workers"
  /\ \A w \in Workers : wpc[w] = "exit"
  /\ mpc' = "unlock"
  /\ UNCHANGED <<treeVars, cfgVars, xattr, remote, upload_queue, unfinished_tasks,
                 cntVars, lock, shutdown_flag, idxVars, wrkVars, runHist, prevHist,
                 lockVars>>

\* lines 299-302
MUnlock ==
  /\ mpc = "unlock"
  /\ lock_held' = FALSE
  /\ lock_file' = FALSE
  /\ mpc' = "ended"
  /\ UNCHANGED <<treeVars, cfgVars, xattr, remote, upload_queue, unfinished_tasks,
                 cntVars, lock, shutdown_flag, idxVars, wrkVars, runHist, prevHist>>

Main ==
  \/ MStart \/ MJoinIndex \/ MJoinQueue \/ MFinJoinQueue
  \/ MSentinels \/ MJoinWorkers \/ MUnlock

(* ------------------------- from run to run ----------------------------- *)
\* the run before completed: the walk covered the tree, every task the
\* Indexer put was uploaded successfully, the process ended without the flag
CompletedClean ==
  /\ mpc = "ended" /\ ~shutdown_flag
  /\ idx > NumFiles
  /\ \A i \in DOMAIN enqLog : enqLog[i].file_path \in succeeded

\* RunInit, as the state a new process starts in
RunReset ==
  /\ upload_queue' = <<>> /\ unfinished_tasks' = 0
  /\ remaining_files' = 0 /\ remaining_size' = 0
  /\ saved_files' = 0 /\ saved_size' = 0 /\ files_indized' = 0
  /\ lock' = 0 /\ shutdown_flag' = FALSE /\ indexing_active' = TRUE
  /\ hashes_to_upload' = <<>>
  /\ lock_held' = TRUE /\ lock_file' = TRUE
  /\ ipc' = "idle" /\ idx' = 1 /\ ireg' = 0 /\ hashes' = EmptyMap
  /\ ledger' = <<>> /\ metadata_uploaded' = FALSE
  /\ wpc' = [w \in Workers |-> "loop"]
  /\ wtask' = [w \in Workers |-> Sentinel]
  /\ wreg' = [w \in Workers |-> 0]
  /\ mpc' = "start"
  /\ enqLog' = <<>>
  /\ attempts' = [f \in Files |-> 0]
  /\ succeeded' = {}
  /\ exhausted' = FALSE
  /\ lateGets' = [w \in Workers |-> 0]
  /\ unconfirmed' = {}

\* the process has ended or is killed at any point; the next process starts
\* (lines 25-62, 248-251) on the same tree with the attributes and the
\* destination as they were left
NewRun ==
  /\ SAFE_MODE' \in BOOLEAN
  /\ DRY_RUN' \in BOOLEAN
  /\ RunReset
  /\ redo' = unconfirmed
  /\ prevSafe' = SAFE_MODE
  /\ prevClean' = (CompletedClean /\ ~SAFE_MODE)
  /\ UNCHANGED <<treeVars, xattr, remote>>

RunStep == Indexer \/ (\E w \in Workers : Worker(w)) \/ Main

\* one process run, its threads interleaved step by step, with or without a
\* KeyboardInterrupt
Next == RunStep \/ Interrupt

Spec == Init /\ [][Next]_vars

\* a thread between two iterations of its loop
IdxQuiet == ipc \in {"idle", "begin", "check", "finish", "inactive", "done"}
WQuiet(w) == wpc[w] \in {"loop", "get", "exit"}

\* the schedules in which a thread that has begun an iteration (a file of the
\* walk, a task of the queue) ends it before another thread steps
SeqStep ==
  \/ Indexer /\ \A w \in Workers : WQuiet(w)
  \/ \E w \in Workers : Worker(w) /\ IdxQuiet /\ \A v \in Workers \ {w} : WQuiet(v)
  \/ Main

\* process after process on one tree, each ended or killed at any point
NextRuns == SeqStep \/ NewRun

SpecRuns == InitFresh /\ [][NextRuns]_vars

(* ------------------------------ claims --------------------------------- *)
HasMarker(f) == ATTR_NAME_BACKUP_MTIME \in DOMAIN xattr[f]

\* the task of file f is queued, in flight at a worker (taken and not yet
\* answered, or answered and not yet acted on) or held by a sleeping worker
Pending(f) ==
  \/ \E i \in DOMAIN upload_queue : upload_queue[i].file_path = f
  \/ \E w \in Workers : /\ wtask[w].file_path = f
                        /\ wpc[w] \in {"upload", "mark", "sleep", "exhausted", "raised"}

\* C1: in every reachable state of a run, a file whose upload task is queued,
\* in flight or sleeping before a retry has no backup marker: the marker was
\* removed before the task was put and is not written before a worker has the
\* success of that task's upload.
C1_MarkerAbsentWhilePending ==
  \A f \in Files : Pending(f) => ~HasMarker(f)

\* C1 witness: one file's task is back on the queue after a failed upload
\* and a sleep, the file without its marker, while another file's upload has
\* succeeded and a worker has written that file's marker
C1_Witness ==
  \E f, g \in Files :
    /\ \E i \in DOMAIN upload_queue :
         upload_queue[i].file_path = f /\ upload_queue[i].upload_try = 1
    /\ ~HasMarker(f)
    /\ g # f /\ g \in succeeded /\ HasMarker(g) /\ ~Pending(g)

\* the Indexer of the current run has dealt with file f (its ledger row is
\* written) and has put a fresh task for it
Examined(f) == Len(ledger) >= f
Enqueued(f) == \E i \in DOMAIN enqLog : enqLog[i].file_path = f

Stored(f) ==
  \E b \in remote : b.md5 = calculate_hash(content[f]) /\ b.size = file_size(f)

\* C3: across runs of any mode, a file's backup marker equals its current
\* modification time only if the file's content is stored at the destination.
C3_MarkerOnlyForStoredContent ==
  \A f \in Files :
    (HasMarker(f) /\ current_attr_mtime(f) = file_mtime(f)) => Stored(f)

\* C4: a fast-mode run that follows a completed fast-mode run, all of whose
\* enqueued uploads succeeded, on the unchanged tree enqueues no task.
C4_SecondFastRunEnqueuesNothing ==
  (prevClean /\ ~SAFE_MODE) => enqLog = <<>>

\* the fresh tasks of this run that carry hash h
TasksWith(h) == {i \in DOMAIN enqLog : enqLog[i].file_hash = h}

\* C5: within a run a hash enters hashes_to_upload at most once and the
\* Indexer puts at most one fresh task per hash; every file it has found to
\* need upload (two files of identical content among them) has exactly one
\* fresh task carrying its hash.
C5_OneTaskPerHash ==
  /\ \A i, j \in DOMAIN hashes_to_upload :
       hashes_to_upload[i] = hashes_to_upload[j] => i = j
  /\ \A i, j \in DOMAIN enqLog : enqLog[i].file_hash = enqLog[j].file_hash => i = j
  /\ \A f \in Files :
       (Examined(f) /\ ledger[f].InQueue) => Cardinality(TasksWith(ledger[f].Hash)) = 1

\* C5 witness: two files of identical content have both been found to need
\* upload and one task has been put
C5_Witness ==
  \E f, g \in Files :
    /\ f # g /\ content[f] = content[g]
    /\ Examined(f) /\ Examined(g)
    /\ ledger[f].InQueue /\ ledger[g].InQueue
    /\ Len(enqLog) = 1 /\ Len(hashes_to_upload) = 1

Answered(w) == wpc[w] \in {"mark", "rf_write", "rs_read", "rs_write", "sleep", "exhausted"}

DequeuesTask(w) == wpc[w] = "get" /\ wpc'[w] = "upload"

\* C8 as stated: once a worker has set the flag after exhausting a task's
\* retries, no worker takes a further task from the queue.
C8_NoDequeueAfterExhaustion ==
  [][exhausted => \A w \in Workers : ~DequeuesTask(w)]_vars

\* C8, amended: a worker polls the flag only at line 77, before its get; a
\* worker already past that poll when the flag is set still takes one task, so
\* after the flag is set every worker takes at most one further task.
C8_AtMostOneLateDequeue ==
  \A w \in Workers : lateGets[w] <= 1

\* C8 witness: the flag was set by a worker that exhausted a task's retries
\* (no interrupt, no indexing error) and another worker, past its poll of the
\* flag, has then taken a task
C8_Witness ==
  \E w \in Workers :
    /\ exhausted /\ shutdown_flag
    /\ mpc = "join_index"
    /\ ipc \in {"check", "examine", "rf_read", "rf_write", "rs_read", "rs_write", "put"}
    /\ lateGets[w] = 1
    /\ wpc[w] = "upload"

\* C9: in every reachable state the remaining file count and the remaining
\* byte count are at least zero.
C9_RemainingNonNegative ==
  remaining_files >= 0 /\ remaining_size >= 0

\* C10: a run does not stop before the main thread has ended, and the main
\* thread ends with the single-instance lock released and the lock file removed.
C10_RunEndsAndUnlocks ==
  /\ mpc = "ended" \/ ENABLED Next
  /\ mpc = "ended" => (~lock_held /\ ~lock_file)

\* C11: every worker gets to leave its loop: as long as some worker has not
\* exited, some thread of the run can take a step (a worker is never left
\* waiting for a task, a sentinel or the lock that nothing will bring), so
\* a run can only come to rest with every worker exited.
C11_WorkersNeverStuck ==
  (\E w \in Workers : wpc[w] # "exit") => ENABLED RunStep

\* C11 witness: after a run without the flag, in which a file was uploaded,
\* the sentinels have released every worker
C11_Witness ==
  /\ \A w \in Workers : wpc[w] = "exit"
  /\ ~shutdown_flag
  /\ saved_files > 0
  /\ mpc = "ended"

\* a task put before file f's turn in this run carries hash h
QueuedBefore(f, h) ==
  \E i \in DOMAIN enqLog : enqLog[i].file_path < f /\ enqLog[i].file_hash = h

\* C12: in safe mode, a non-empty file whose hash no earlier task of the run
\* carries has a task put for it exactly if the hash list fetched from the
\* destination lacks its hash or holds it with another size; the file's
\* marker has no part in it.
C12_SafeModeDecision ==
  SAFE_MODE =>
    \A f \in Files :
      (Examined(f) /\ file_size(f) > 0 /\ ~QueuedBefore(f, calculate_hash(content[f])))
        => (Enqueued(f) <=>
              (\/ calculate_hash(content[f]) \notin DOMAIN hashes
               \/ hashes[calculate_hash(content[f])] # file_size(f)))

\* C12 witness: a safe-mode run has put a task for one non-empty file and none
\* for another of different content
C12_Witness ==
  /\ SAFE_MODE
  /\ \E f, g \in Files :
       /\ file_size(f) > 0 /\ file_size(g) > 0 /\ content[f] # content[g]
       /\ Examined(f) /\ Examined(g)
       /\ Enqueued(f) /\ ~Enqueued(g)
       /\ calculate_hash(content[g]) \in DOMAIN hashes

\* C13: a zero-byte file never has a task (put, queued or with a worker), its
\* hash is the literal "0" and not a computed digest, in the ledger and in the
\* hash cache, and the Indexer never stands at the counter updates and the put
\* of lines 222-224 for it.
C13_EmptyFilesNeverQueued ==
  /\ \A f \in Files :
       file_size(f) = 0 =>
         /\ ~Enqueued(f) /\ ~Pending(f)
         /\ Examined(f) =>
              /\ ledger[f].Hash = <<"0">>
              /\ ~ledger[f].InQueue
              /\ xattr[f][ATTR_NAME_MD5_HASH_VALUE] = <<"0">>
  /\ ipc \in {"rf_read", "rf_write", "rs_read", "rs_write", "put"} => file_size(idx) > 0

\* C13 witness: a run has examined a zero-byte file after putting the task of
\* a non-empty one
C13_Witness ==
  \E f, g \in Files :
    /\ file_size(f) = 0 /\ Examined(f) /\ ledger[f].Hash = <<"0">>
    /\ file_size(g) > 0 /\ g < f /\ Enqueued(g)
    /\ remaining_files = 1


(* ----------------- the destination path on its own ---------------------- *)
\* longest digest SpecPath formats, besides the md5 digest of the documentation
MaxHashLen == 4

\* the characters the short digests are made of
PathChars == {"5", "e", "b"}

\* 5eb63bbbe01eeed093cb22bb8f5acdc3, an md5 hex digest (32 characters)
ExampleHash ==
  <<"5", "e", "b", "6", "3", "b", "b", "b", "e", "0", "1", "e", "e", "e", "d", "0",
    "9", "3", "c", "b", "2", "2", "b", "b", "8", "f", "5", "a", "c", "d", "c", "3">>

\* the digests formatted: every string of 1..MaxHashLen characters, and the md5 one
PathHashes ==
  UNION {[1..n -> PathChars] : n \in 1..MaxHashLen} \cup {ExampleHash}

\* os.path.splitext gives the extension with its dot, or the empty string
PathExts == Exts \cup {<<>>}

\* a digest, an extension and a directory depth within the digest's length
PathInit ==
  /\ \E h \in PathHashes : \E e \in PathExts : \E K \in 1..Len(h) :
       path_call = [h |-> h, e |-> e, K |-> K, path |-> <<>>]
  /\ content = [f \in Files |-> 0] /\ mtime = [f \in Files |-> 1]
  /\ ext = [f \in Files |-> TXT]
  /\ BACKUP_TYPE = AZURE /\ SAFE_MODE = FALSE /\ DRY_RUN = FALSE
  /\ xattr = [f \in Files |-> EmptyMap] /\ remote = {}
  /\ RunInit
  /\ redo = {} /\ prevSafe = FALSE /\ prevClean = FALSE

\* line 220: dest_file_path is formatted from file_hash, TARGET_DIR_DEPTH and
\* file_extension
PathStep ==
  /\ path_call.path = <<>>
  /\ path_call' = [path_call EXCEPT !.path = DestPath(path_call.h, path_call.e, path_call.K)]
  /\ UNCHANGED <<content, mtime, ext, BACKUP_TYPE, cfgVars, xattr, remote, upload_queue,
                 unfinished_tasks, cntVars, lock, shutdown_flag, idxVars, wrkVars, mpc,
                 runHist, prevHist, lockVars>>

SpecPath == PathInit /\ [][PathStep]_vars

(* ------------------------------- C14 ----------------------------------- *)
\* C14 (content addressing): for a digest h, a depth K with 1 <= K <= Len(h)
\* and an extension e, the formatted path is K directory segments, the i-th
\* being the i-th character of h alone, followed by the file name h \o e.
\* The path is read position by position: segment i sits at 2i-1, its
\* separator at 2i, and the file name fills the rest.
C14_PathIsSegmentsThenName ==
  path_call.path # <<>> =>
    LET h == path_call.h
        e == path_call.e
        K == path_call.K
        p == path_call.path
    IN  /\ Len(p) = 2 * K + Len(h) + Len(e)
        /\ \A i \in 1..K : p[2 * i - 1] = h[i] /\ p[2 * i] = "/"
        /\ SubSeq(p, 2 * K + 1, 2 * K + Len(h)) = h
        /\ SubSeq(p, 2 * K + Len(h) + 1, Len(p)) = e
        /\ (h = ExampleHash /\ e = TXT /\ K = 3) =>
             p = <<"5", "/", "e", "/", "b", "/">> \o ExampleHash \o <<".", "t", "x", "t">>

\* the md5 digest of the documentation formatted at depth 3 with .txt
C14_Witness ==
  /\ path_call.h = ExampleHash /\ path_call.e = TXT /\ path_call.K = 3
  /\ path_call.path = <<"5", "/", "e", "/", "b", "/">> \o ExampleHash \o TXT

(* ------------------------------- C15 ----------------------------------- *)
\* C15: in safe mode, a file the Indexer has dealt with, whose hash the list
\* fetched from the destination holds with the file's size, has its backup
\* marker at its current modification time (a marker that differed, or was
\* absent, was set; nothing clears a marker but the put of a task) and no
\* task was put for it.
C15_SafeModeRepairsMarker ==
  SAFE_MODE =>
    \A f \in Files :
      (/\ Examined(f)
       /\ ledger[f].Hash \in DOMAIN hashes
       /\ hashes[ledger[f].Hash] = file_size(f))
        => /\ HasMarker(f) /\ current_attr_mtime(f) = file_mtime(f)
           /\ ~Enqueued(f)

(* ------------------------------- C16 ----------------------------------- *)
\* the upload of the task worker w holds has not returned success: the
\* backend returned False or let an exception escape
FailedUpload(w) == wpc[w] \in {"sleep", "exhausted", "raised"}

\* C16: whatever went wrong in the backend (other than the destination
\* already existing), the step a worker takes after a failed upload of a
\* task whose attempt count is below MAX_RETRIES puts the task again with
\* the count raised by one and does not set the shutdown flag.
C16_FaultBelowBudgetIsRetried ==
  [][\A w \in Workers :
       (FailedUpload(w) /\ wtask[w].upload_try < MAX_RETRIES /\ wpc'[w] # wpc[w])
         => /\ upload_queue' = Append(upload_queue, Retry(wtask[w]))
            /\ shutdown_flag' = shutdown_flag]_vars

(* ------------------------------- C17 ----------------------------------- *)
\* C17: every step that changes a progress counter is taken by a thread that
\* holds the counter lock: a change of the remaining or the saved counters is
\* a step of the worker the lock is held by, or of the Indexer holding it,
\* and the Indexer's count of indexed files changes in a step that takes the
\* free lock for the statement (lines 186-187).  In this program the
\* Indexer holds the lock nowhere but within that statement.
C17_CountersUnderLock ==
  [][/\ cntVars' # cntVars => \E w \in Workers : lock = w /\ wpc'[w] # wpc[w]
     /\ files_indized' # files_indized => lock = 0]_vars

(* ------------------------------- C18 ----------------------------------- *)
\* the tasks (not sentinels) on the queue, and the workers that have taken a
\* task and have not resolved it yet
QueuedTasks == {i \in DOMAIN upload_queue : upload_queue[i].file_path # 0}
Processing  == {w \in Workers : wtask[w].file_path # 0}

\* C18: until the main thread puts the sentinels, the queue's count of
\* unfinished tasks is the number of tasks queued plus the number of tasks
\* workers are processing: every task a worker has taken and is done with,
\* by success, by re-enqueue or by a fatal failure, was answered by one
\* task_done; so the count is zero exactly when every task is resolved.
C18_UnfinishedIsQueuedPlusInProcess ==
  mpc \notin {"join_workers", "unlock", "ended"} =>
    unfinished_tasks = Cardinality(QueuedTasks) + Cardinality(Processing)

(* ------------------------------- C19 ----------------------------------- *)
\* C19: in a run in which the ledger was uploaded as the metadata artifact,
\* the shutdown flag is not set, at the upload or later in the run, and every
\* task the Indexer has put has had a successful upload.
C19_LedgerOnlyAfterSuccessfulRun ==
  metadata_uploaded =>
    /\ ~shutdown_flag
    /\ \A i \in DOMAIN enqLog : enqLog[i].file_path \in succeeded

(* ------------------------------- C20 ----------------------------------- *)
\* C20: once the Indexer thread has stopped, by the end of the walk, by an
\* indexing error or because it saw the shutdown flag, indexing is marked
\* inactive (nothing sets indexing_active again within the run).
C20_StoppedIndexerIsInactive ==
  ipc = "done" => ~indexing_active

(* ------------------------------- C21 ----------------------------------- *)
\* the Indexer is between two files or past the walk (not inside the
\* processing of a file, lines 184-231)
BetweenFiles == ipc \in {"check", "finish", "inactive", "done"}

\* C21: the Indexer polls the flag before each file and leaves the walk at
\* the first poll that finds it set.  Once the flag is set and the Indexer
\* is not inside the processing of a file, no step writes a ledger row or
\* puts a task and the Indexer does not begin another file; a step that
\* writes a row or puts a task while the flag is set is the end of the
\* processing of the one file that was under way (one row, at most one task,
\* and the Indexer is back at the poll).
C21_AbortsAtFirstPoll ==
  [][shutdown_flag =>
       /\ BetweenFiles =>
            /\ ledger' = ledger /\ enqLog' = enqLog
            /\ hashes_to_upload' = hashes_to_upload
            /\ ipc' \in {"check", "finish", "inactive", "done"}
       /\ (ledger' # ledger \/ enqLog' # enqLog) =>
            /\ Len(ledger') = Len(ledger) + 1
            /\ Len(enqLog') <= Len(enqLog) + 1
            /\ ipc' = "check"]_vars

\* C21 witness: the Indexer has left the walk on the flag (indexing is still
\* marked active, see C20) after the row and the task of the first file, with
\* a file left unvisited
C21_Witness ==
  /\ shutdown_flag /\ ipc = "done" /\ indexing_active
  /\ Len(ledger) = 1 /\ Len(enqLog) = 1 /\ idx = 2 /\ idx <= NumFiles

(* ------------------------------- C22 ----------------------------------- *)
\* the Indexer has stopped on the exception of fetch_hashes: it is past the
\* except clause with no file counted (an abort on the flag leaves
\* indexing_active set, an error while hashing has counted the file)
FetchFailed ==
  /\ ipc \in {"inactive", "done"}
  /\ files_indized = 0 /\ idx = 1 /\ idx <= NumFiles
  /\ ipc = "done" => ~indexing_active

\* C22: in safe mode a failure to fetch the remote hash list ends indexing
\* before it begins.  The failing step sets the shutdown flag and touches no
\* attribute, ledger row or queue; in every state after it no file is
\* counted as examined, the ledger has no row, no task was put and no hash
\* remembered; and no later step of the run changes an extended attribute.
C22_FetchFailureStopsIndexing ==
  [][/\ (ipc = "begin" /\ ipc' \in {"inactive", "done"}) =>
          /\ SAFE_MODE
          /\ shutdown_flag'
          /\ UNCHANGED <<xattr, ledger, enqLog, upload_queue, hashes_to_upload,
                         files_indized, idx, cntVars>>
     /\ FetchFailed =>
          /\ SAFE_MODE /\ shutdown_flag
          /\ ledger = <<>> /\ enqLog = <<>> /\ hashes_to_upload = <<>>
          /\ QueuedTasks = {} /\ Processing = {}
          /\ xattr' = xattr /\ ledger' = ledger /\ enqLog' = enqLog
          /\ files_indized' = 0]_vars

\* C22 witness: a safe-mode run on a tree with a file that would need upload
\* has ended after the failed fetch: flag set, nothing examined, written or
\* put, and no attribute on the file
C22_Witness ==
  /\ FetchFailed /\ ipc = "done" /\ mpc = "ended"
  /\ SAFE_MODE /\ shutdown_flag
  /\ file_size(1) > 0 /\ xattr[1] = EmptyMap
  /\ ledger = <<>> /\ enqLog = <<>>

(* --------------- the Indexer alone, on a tree that has changed --------- *)
\* a modification time no file of the tree has now: the time a cache entry
\* carries after its file was modified
StaleMtime == MaxMtime + 1

\* what a file's hash cache can hold: nothing, a digest, or "0"; the digest
\* need not be the one of the file's present content
CachedHashes == {calculate_hash(c) : c \in 1..NumContents} \cup {<<"0">>}

\* the attribute tables a file of modification time m can carry: each of
\* the cached hash, its modification time and the backup marker is absent
\* or present, the cached time being m or stale (lines 206-207 are two
\* calls: a killed process can leave the first without the second)
CacheTables(m) ==
  {[n \in ns |-> IF n = ATTR_NAME_MD5_HASH_VALUE THEN hv
                 ELSE IF n = ATTR_NAME_MD5_HASH_MTIME THEN hm ELSE m] :
     ns \in SUBSET {ATTR_NAME_MD5_HASH_VALUE, ATTR_NAME_MD5_HASH_MTIME,
                    ATTR_NAME_BACKUP_MTIME},
     hv \in CachedHashes, hm \in {m, StaleMtime}}

\* a run starts on a tree whose files carry any of these tables, with an
\* empty Azure destination
CacheInit ==
  /\ \E t \in Trees : content = t.content /\ mtime = t.mtime /\ ext = t.ext
  /\ xattr \in [Files -> UNION {CacheTables(m) : m \in Mtimes}]
  /\ \A f \in Files : xattr[f] \in CacheTables(mtime[f])
  /\ BACKUP_TYPE = AZURE
  /\ SAFE_MODE \in BOOLEAN
  /\ DRY_RUN = FALSE
  /\ remote = {}
  /\ RunInit
  /\ redo = {} /\ prevSafe = SAFE_MODE /\ prevClean = FALSE
  /\ path_call = NoPathCall

\* the indexing thread is started and runs; the workers have not been
\* scheduled yet
CacheNext == MStart \/ Indexer

SpecCache == CacheInit /\ [][CacheNext]_vars

(* ------------------------------- C23 ----------------------------------- *)
\* the step in which the Indexer fingerprints and decides file idx
ExaminesFile == ipc = "examine" /\ ipc' \in {"check", "rf_read"}

\* the cache of file f does not vouch for the file: no cached hash, or a
\* cached modification time (absent: none) other than the file's
CacheStale(f) ==
  \/ ATTR_NAME_MD5_HASH_VALUE \notin DOMAIN xattr[f]
  \/ ATTR_NAME_MD5_HASH_MTIME \notin DOMAIN xattr[f]
  \/ xattr[f][ATTR_NAME_MD5_HASH_MTIME] # mtime[f]

\* C23: when the Indexer fingerprints a file, the hash it works with and
\* leaves in the cache is the digest of the file's present content ("0" for
\* an empty file) if the cache held no hash or a modification time other
\* than the file's, and is the cached hash, whatever it is, otherwise; after
\* the step the cached modification time is the file's, and a ledger row
\* written in the step carries that hash.
C23_CacheInvalidation ==
  [][ExaminesFile =>
       /\ {ATTR_NAME_MD5_HASH_VALUE, ATTR_NAME_MD5_HASH_MTIME} \subseteq DOMAIN xattr'[idx]
       /\ xattr'[idx][ATTR_NAME_MD5_HASH_VALUE] =
            IF CacheStale(idx)
            THEN IF content[idx] > 0 THEN calculate_hash(content[idx]) ELSE <<"0">>
            ELSE xattr[idx][ATTR_NAME_MD5_HASH_VALUE]
       /\ xattr'[idx][ATTR_NAME_MD5_HASH_MTIME] = mtime[idx]
       /\ ledger' # ledger =>
            ledger'[idx].Hash = xattr'[idx][ATTR_NAME_MD5_HASH_VALUE]]_vars

\* C23 witness: the Indexer has dealt with two non-empty files; the cache of
\* one holds the digest of its content, the cache of the other, whose cached
\* modification time is the file's, still holds a hash that is not the
\* digest of its content, and that hash is in its ledger row
C23_Witness ==
  \E f, g \in Files :
    /\ Examined(f) /\ Examined(g) /\ content[f] > 0 /\ content[g] > 0
    /\ xattr[f][ATTR_NAME_MD5_HASH_VALUE] # calculate_hash(content[f])
    /\ xattr[f][ATTR_NAME_MD5_HASH_MTIME] = mtime[f]
    /\ ledger[f].Hash = xattr[f][ATTR_NAME_MD5_HASH_VALUE]
    /\ xattr[g][ATTR_NAME_MD5_HASH_VALUE] = calculate_hash(content[g])
    /\ ledger[g].Hash = calculate_hash(content[g])

(* ------------------------------- C24 ----------------------------------- *)
\* the main thread's wait on the queue (line 270) has returned in a run
\* without interrupt, indexing error or exhausted task: the flag is clear
JoinReturnedClean ==
  /\ mpc \in {"fin_join_queue", "sentinels", "join_workers", "unlock", "ended"}
  /\ ~shutdown_flag

\* C24: in a run without interrupt in which every upload succeeds within its
\* retry budget, once the main thread's wait on the queue has returned every
\* task the Indexer has put was uploaded successfully, once, its file
\* carries the backup marker of its modification time, the remaining file
\* count is 0 and the saved file count is the number of tasks put.
C24_CleanRunAccounts ==
  JoinReturnedClean =>
    /\ \A i \in DOMAIN enqLog :
         /\ enqLog[i].file_path \in succeeded
         /\ HasMarker(enqLog[i].file_path)
         /\ current_attr_mtime(enqLog[i].file_path) = file_mtime(enqLog[i].file_path)
    /\ QueuedTasks = {} /\ Processing = {}
    /\ saved_files = Len(enqLog)
    /\ remaining_files = 0
=============================================================================
